---- MODULE Spec2Model ----
(***************************************************************************)
(* Ephemeral file lifecycle of the SoundCloud downloader API (src/main.py) *)
(*                                                                         *)
(* The storage directory "downloads" is a map from file names to the age  *)
(* of the file (now - st_mtime, in seconds).  All handlers are coroutines  *)
(* of one asyncio event loop: download_track, cleanup_old_files and the    *)
(* body of get_file contain no await, so each runs without interleaving;   *)
(* only the sending of a FileResponse (stat, headers, open, body,          *)
(* background task) is interleaved with other handlers.                    *)
(*                                                                         *)
(* The response follows Starlette's FileResponse under uvicorn on a POSIX  *)
(* file system: a file missing at os.stat is a RuntimeError (500), a file  *)
(* missing at open breaks the response after its headers, a file unlinked  *)
(* while it is streamed is still read to its end, and chunks sent after a  *)
(* disconnect are dropped without an error.                                *)
(***************************************************************************)
EXTENDS Integers, Sequences, FiniteSets, TLC

\* ------------------------------------------------------------- bounds
MaxIds == 2          \* number of uuid4 values drawn in a behaviour
MaxGets == 2         \* number of GET /file requests in flight at once
TickStep == 600      \* seconds by which one Tick advances the clock
AgeCap == 900        \* ages above this are not distinguished
MaxTitle == 3        \* length of the titles that are sanitised
MaxName == 3         \* length of the download_name of a GET /file

\* ---------------------------------------------------------- constants
RETENTION == 600
MAX_SIZE == 13 * 1024 * 1024

NoFile == -1         \* the name is not in the directory
Absent == -1         \* info has no such key
Null == -2           \* info maps the key to None

Ids == 1..MaxIds
\* A file left in the directory by an earlier run, older than the retention
\* window (a younger one is like an artifact that nobody has fetched yet).
Leftover == 0
Names == {Leftover} \cup Ids
Reqs == 1..MaxGets
SizeVals == {Absent, Null, 0, MAX_SIZE, MAX_SIZE + 1}

VARIABLES
  started,   \* the startup event has run
  files,     \* the directory: name -> age of the file, or NoFile
  locked,    \* names on which unlink raises (environment fault)
  nextId,    \* the next fresh uuid4
  dl,        \* the POST /download being handled (it blocks the loop)
  get,       \* the GET /file requests: slot -> record
  purge,     \* the DELETE /cleanup being answered
  claimed,   \* names served completely and whose deletion task has run
  clean,     \* a purge was called and no file was created since
  issued,    \* ids that a POST /download has returned in a download_url
  text       \* the string a handler is turning into a name or a header

vars ==
  <<started, files, locked, nextId, dl, get, purge, claimed, clean, issued,
    text>>

Min(a, b) == IF a < b THEN a ELSE b

Present(fs) == {n \in Names : fs[n] # NoFile}

Remove(fs, D) == [n \in Names |-> IF n \in D THEN NoFile ELSE fs[n]]

\* variants of Stale: the boundary included, the comparison reversed
StaleOrEqual(age, max_age_seconds) == age >= max_age_seconds
StaleYounger(age, max_age_seconds) == age < max_age_seconds
\* file.stat().st_mtime < time.time() - max_age_seconds
Stale(age, max_age_seconds) == age > max_age_seconds

StaleSet(fs, max_age_seconds) ==
  {n \in Present(fs) : Stale(fs[n], max_age_seconds)}

\* The sets of files one run of cleanup_old_files_sync can delete.  The
\* loop visits the directory in an arbitrary order inside one try block:
\* the first unlink that raises ends the loop, so the files deleted are the
\* stale files visited before it.
cleanup_old_files_sync(fs, lk, max_age_seconds) ==
  IF StaleSet(fs, max_age_seconds) \cap lk = {}
  THEN {StaleSet(fs, max_age_seconds)}
  ELSE SUBSET (StaleSet(fs, max_age_seconds) \ lk)

\* The same for the loop of DELETE /cleanup, which deletes every file.
purge_loop(fs, lk) ==
  IF Present(fs) \cap lk = {}
  THEN {Present(fs)}
  ELSE SUBSET (Present(fs) \ lk)

IdleDl ==
  [pc |-> "idle", status |-> 0, msg |-> "none", why |-> "none",
   size |-> Absent, id |-> 0, deleted |-> 0, trace |-> <<>>]

\* swept: a sweep removed the file while the response had not opened it
\* raced: a sweep or a purge removed the file while the response streamed it
\* err: the deletion task printed an error
IdleGet ==
  [pc |-> "idle", name |-> Leftover, status |-> 0, body |-> "none", dels |-> 0,
   swept |-> FALSE, raced |-> FALSE, err |-> FALSE]

\* no string is being converted
NoText == [op |-> "none", input |-> <<>>, output |-> <<>>]

IdlePurge == [pc |-> "idle", status |-> 0, count |-> 0, again |-> FALSE]

\* The event loop is held by a handler that has not returned yet; a
\* finished GET is kept until its result has been handed to the client.
\* variant of Busy: download_track gives the loop to other handlers
BusyWithoutDownload ==
  \/ purge.pc # "idle"
  \/ \E r \in Reqs : get[r].pc = "done"
Busy ==
  \/ dl.pc # "idle"
  \/ purge.pc # "idle"
  \/ \E r \in Reqs : get[r].pc = "done"

Init ==
  /\ started = FALSE
  /\ files \in {f \in [Names -> {NoFile, AgeCap}] :
                  \A n \in Ids : f[n] = NoFile}
  /\ locked = {}
  /\ nextId = 1
  /\ dl = IdleDl
  /\ get = [r \in Reqs |-> IdleGet]
  /\ purge = IdlePurge
  /\ claimed = {}
  /\ clean = FALSE
  /\ issued = {}
  /\ text = NoText

\* ------------------------------------------------------------ startup
Startup ==
  /\ ~started
  /\ \E D \in cleanup_old_files_sync(files, locked, RETENTION) :
       files' = Remove(files, D)
  /\ started' = TRUE
  /\ UNCHANGED <<locked, nextId, dl, get, purge, claimed, clean,
                 issued, text>>

\* ------------------------------------------------------ POST /download
\* variant of HandleException: the exception answered as a server error
HandleExceptionAs500(d, why) ==
  [d EXCEPT !.pc = "done", !.status = 500, !.msg = "exception", !.why = why]
\* except Exception as e: raise HTTPException(status_code=400, detail=str(e))
HandleException(d, why) ==
  [d EXCEPT !.pc = "done", !.status = 400, !.msg = "exception", !.why = why]

\* filesize = info.get('filesize') or info.get('filesize_approx', 0)
Filesize(filesize, filesize_approx) ==
  IF filesize \notin {Absent, Null, 0} THEN filesize
  ELSE IF filesize_approx = Absent THEN 0
  ELSE filesize_approx

Admissible(size) == size \notin {0, Null} /\ ~(size > MAX_SIZE)

\* a response that streams a file of D has lost the file to this deletion
Raced(g, D) ==
  IF g.pc = "streaming" /\ g.name \in D THEN [g EXCEPT !.raced = TRUE] ELSE g

DlSweep ==
  /\ started
  /\ ~Busy
  /\ \E D \in cleanup_old_files_sync(files, locked, RETENTION) :
       /\ files' = Remove(files, D)
       /\ dl' = [IdleDl EXCEPT !.pc = "swept", !.deleted = Cardinality(D),
                               !.trace = <<"sweep">>]
       /\ get' = [r \in Reqs |->
                   IF get[r].pc \in {"respond", "headers"} /\ get[r].name \in D
                   THEN [get[r] EXCEPT !.swept = TRUE]
                   ELSE Raced(get[r], D)]
  /\ UNCHANGED <<started, locked, nextId, purge, claimed, clean,
                 issued, text>>

DlProbe(result, filesize, filesize_approx) ==
  /\ dl.pc = "swept"
  /\ (result = "ok" /\ Admissible(Filesize(filesize, filesize_approx)))
       => nextId <= MaxIds
  /\ dl' = IF result = "fail"
           THEN HandleException([dl EXCEPT !.trace = Append(@, "probe")], "probe")
           ELSE [dl EXCEPT !.pc = "probed",
                           !.size = Filesize(filesize, filesize_approx),
                           !.trace = Append(@, "probe")]
  /\ UNCHANGED <<started, files, locked, nextId, get, purge, claimed, clean,
                 issued, text>>

\* variant of Admit: the file_id drawn before the size checks
AdmitIdFirst(d, id) ==
  LET t == [d EXCEPT !.trace = Append(@, "admit"), !.id = id] IN
  IF t.size = 0
  THEN [t EXCEPT !.pc = "done", !.status = 400, !.msg = "size_unknown",
                 !.why = "unknown"]
  ELSE IF t.size = Null
  THEN HandleException(t, "unknown")
  ELSE IF t.size > MAX_SIZE
  THEN [t EXCEPT !.pc = "done", !.status = 400, !.msg = "size_exceeded",
                 !.why = "exceeded"]
  ELSE [t EXCEPT !.pc = "admitted"]
\* variant of Admit: the size checks left out
AdmitUnchecked(d, id) ==
  [d EXCEPT !.trace = Append(@, "admit"), !.pc = "admitted", !.id = id]
\* the two size checks, then file_id = str(uuid.uuid4())
Admit(d, id) ==
  LET t == [d EXCEPT !.trace = Append(@, "admit")] IN
  IF t.size = 0
  THEN [t EXCEPT !.pc = "done", !.status = 400, !.msg = "size_unknown",
                 !.why = "unknown"]
  ELSE IF t.size = Null
  THEN HandleException(t, "unknown")    \* None > MAX_SIZE raises TypeError
  ELSE IF t.size > MAX_SIZE
  THEN [t EXCEPT !.pc = "done", !.status = 400, !.msg = "size_exceeded",
                 !.why = "exceeded"]
  ELSE [t EXCEPT !.pc = "admitted", !.id = id]

\* variant of DlAdmit: the id is not a fresh one
DlAdmitStaleId ==
  /\ dl.pc = "probed"
  /\ dl' = Admit(dl, nextId)
  /\ UNCHANGED <<started, files, locked, nextId, get, purge, claimed, clean,
                 issued, text>>
DlAdmit ==
  /\ dl.pc = "probed"
  /\ dl' = Admit(dl, nextId)
  /\ nextId' = IF dl'.pc = "admitted" THEN nextId + 1 ELSE nextId
  /\ UNCHANGED <<started, files, locked, get, purge, claimed, clean,
                 issued, text>>

\* variant of DlFetch: the output template does not hold the file_id
DlFetchFixedName(result) ==
  /\ dl.pc = "admitted"
  /\ dl' = IF result = "fail"
           THEN HandleException([dl EXCEPT !.trace = Append(@, "fetch")], "fetch")
           ELSE [dl EXCEPT !.pc = "fetched", !.trace = Append(@, "fetch")]
  /\ files' = IF result = "ok" THEN [files EXCEPT ![1] = 0] ELSE files
  /\ clean' = IF result = "ok" THEN FALSE ELSE clean
  /\ UNCHANGED <<started, locked, nextId, get, purge, claimed, issued, text>>
\* ydl.download([request.url]) with outtmpl = downloads/{file_id}.%(ext)s
DlFetch(result) ==
  /\ dl.pc = "admitted"
  /\ dl' = IF result = "fail"
           THEN HandleException([dl EXCEPT !.trace = Append(@, "fetch")], "fetch")
           ELSE [dl EXCEPT !.pc = "fetched", !.trace = Append(@, "fetch")]
  /\ files' = IF result = "ok" THEN [files EXCEPT ![dl.id] = 0] ELSE files
  /\ clean' = IF result = "ok" THEN FALSE ELSE clean
  /\ UNCHANGED <<started, locked, nextId, get, purge, claimed, issued, text>>

\* glob(f"{file_id}.*"), then 500 when nothing was found
Resolve(d, fs) ==
  LET t == [d EXCEPT !.trace = Append(@, "resolve"), !.pc = "done"] IN
  IF fs[d.id] = NoFile
  THEN [t EXCEPT !.status = 500, !.msg = "download_failed", !.why = "missing"]
  ELSE [t EXCEPT !.status = 200]

\* return {..., "download_url": f"/file/{downloaded_file.name}"}
Issue(d, ids) == IF d.status = 200 THEN ids \cup {d.id} ELSE ids

DlResolve ==
  /\ dl.pc = "fetched"
  /\ dl' = Resolve(dl, files)
  /\ issued' = Issue(dl', issued)
  /\ UNCHANGED <<started, files, locked, nextId, get, purge, claimed, clean,
                 text>>

DlReturn ==
  /\ dl.pc = "done"
  /\ dl' = IdleDl
  /\ UNCHANGED <<started, files, locked, nextId, get, purge, claimed, clean,
                 issued, text>>

\* -------------------------------------------------- GET /file/{filename}
\* The handler: 404 when the path does not exist, else a FileResponse
\* with the deletion as its background task.
get_file(fs, filename) ==
  IF fs[filename] = NoFile
  THEN [IdleGet EXCEPT !.pc = "done", !.name = filename, !.status = 404]
  ELSE [IdleGet EXCEPT !.pc = "respond", !.name = filename]

GetArrive(r, filename) ==
  /\ started
  /\ ~Busy
  /\ get[r].pc = "idle"
  /\ \A q \in Reqs : q < r => get[q].pc # "idle"
  /\ get' = [get EXCEPT ![r] = get_file(files, filename)]
  /\ UNCHANGED <<started, files, locked, nextId, dl, purge, claimed, clean,
                 issued, text>>

\* FileResponse.__call__: os.stat in a worker thread; a missing file is a
\* RuntimeError, answered 500, and the background task is not run.
SendStat(r) ==
  /\ ~Busy
  /\ get[r].pc = "respond"
  /\ get' = [get EXCEPT ![r] =
               IF files[get[r].name] = NoFile
               THEN [@ EXCEPT !.pc = "done", !.status = 500]
               ELSE [@ EXCEPT !.pc = "headers", !.status = 200]]
  /\ UNCHANGED <<started, files, locked, nextId, dl, purge, claimed, clean,
                 issued, text>>

\* The headers are out; opening a file that is gone breaks the response.
SendOpen(r) ==
  /\ ~Busy
  /\ get[r].pc = "headers"
  /\ get' = [get EXCEPT ![r] =
               IF files[get[r].name] = NoFile
               THEN [@ EXCEPT !.pc = "done", !.body = "broken"]
               ELSE [@ EXCEPT !.pc = "streaming"]]
  /\ UNCHANGED <<started, files, locked, nextId, dl, purge, claimed, clean,
                 issued, text>>

\* variant of delete_file: the unlink left out
delete_file_noop(fs, lk, path) == fs
\* async def delete_file(path): if path.exists(): path.unlink(); an
\* exception is printed.
delete_file(fs, lk, path) ==
  IF fs[path] # NoFile /\ path \notin lk THEN Remove(fs, {path}) ELSE fs

\* variant of delete_prints_error: unlink without the exists() before it
unlink_prints_error(fs, lk, path) == fs[path] = NoFile \/ path \in lk
\* except Exception as e: print(...) in delete_file: reached when unlink
\* raises, and unlink is called only on a path that exists
delete_prints_error(fs, lk, path) == fs[path] # NoFile /\ path \in lk

\* variant of BackgroundRuns: no background task after a disconnect
BackgroundOnlyWhenDelivered(body) == body = "full"
\* background=background_tasks: the response awaits its background task
\* when the body loop has ended, whether the chunks reached the client
\* ("full") or were dropped by the server after a disconnect ("cut").
BackgroundRuns(body) == TRUE

\* The end of the body loop and the background task that follows it with
\* no suspension point in between.
Finish(r, body) ==
  /\ ~Busy
  /\ get[r].pc = "streaming"
  /\ files' = IF BackgroundRuns(body)
              THEN delete_file(files, locked, get[r].name) ELSE files
  /\ get' = [get EXCEPT ![r].pc = "done", ![r].body = body,
                        ![r].dels = IF BackgroundRuns(body) THEN @ + 1 ELSE @,
                        ![r].err = BackgroundRuns(body)
                                     /\ delete_prints_error(files, locked,
                                                            get[r].name)]
  /\ claimed' = IF body = "full" THEN claimed \cup {get[r].name} ELSE claimed
  /\ UNCHANGED <<started, locked, nextId, dl, purge, clean, issued, text>>

\* The last chunk is sent.
SendBody(r) == Finish(r, "full")

\* The client goes away while the body is streamed: the server drops the
\* remaining chunks and the body loop runs to its end.
Disconnect(r) == Finish(r, "cut")

GetClose(r) ==
  /\ get[r].pc = "done"
  /\ get' = [get EXCEPT ![r] = IdleGet]
  /\ UNCHANGED <<started, files, locked, nextId, dl, purge, claimed, clean,
                 issued, text>>

\* ------------------------------------------------------ DELETE /cleanup
Purge ==
  /\ started
  /\ ~Busy
  /\ \E D \in purge_loop(files, locked) :
       /\ files' = Remove(files, D)
       /\ purge' = [pc |-> "done",
                    status |-> IF Present(files) \cap locked = {} THEN 200 ELSE 500,
                    count |-> Cardinality(D),
                    again |-> clean]
       /\ get' = [r \in Reqs |-> Raced(get[r], D)]
  /\ clean' = TRUE
  /\ UNCHANGED <<started, locked, nextId, dl, claimed, issued, text>>

PurgeReturn ==
  /\ purge.pc = "done"
  /\ purge' = IdlePurge
  /\ UNCHANGED <<started, files, locked, nextId, dl, get, claimed, clean,
                 issued, text>>

\* ---------------------------------------------------------- environment
Tick ==
  /\ ~Busy
  /\ files' = [n \in Names |->
                 IF files[n] = NoFile THEN NoFile
                 ELSE Min(files[n] + TickStep, AgeCap)]
  /\ UNCHANGED <<started, locked, nextId, dl, get, purge, claimed, clean,
                 issued, text>>

\* One file at a time is undeletable.
Lock(n) ==
  /\ ~Busy
  /\ locked = {}
  /\ locked' = locked \cup {n}
  /\ UNCHANGED <<started, files, nextId, dl, get, purge, claimed, clean,
                 issued, text>>

Unlock(n) ==
  /\ ~Busy
  /\ n \in locked
  /\ locked' = locked \ {n}
  /\ UNCHANGED <<started, files, nextId, dl, get, purge, claimed, clean,
                 issued, text>>

DlProbeStep ==
  \E result \in {"ok", "fail"}, filesize \in SizeVals, filesize_approx \in SizeVals :
    DlProbe(result, filesize, filesize_approx)

DlFetchStep == \E result \in {"ok", "nofile", "fail"} : DlFetch(result)

Next ==
  \/ Startup
  \/ DlSweep
  \/ DlProbeStep
  \/ DlAdmit
  \/ DlFetchStep
  \/ DlResolve
  \/ DlReturn
  \/ \E r \in Reqs, filename \in Names : GetArrive(r, filename)
  \/ \E r \in Reqs : SendStat(r)
  \/ \E r \in Reqs : SendOpen(r)
  \/ \E r \in Reqs : Disconnect(r)
  \/ \E r \in Reqs : SendBody(r)
  \/ \E r \in Reqs : GetClose(r)
  \/ Purge
  \/ PurgeReturn
  \/ Tick

\* The program with a file system that works.
Spec == Init /\ [][Next]_vars

\* unlink starts or stops failing on an artifact
Fault == \E n \in Ids : Lock(n) \/ Unlock(n)

NextFault == Next \/ Fault

\* The program with unlink failing on some files.
SpecFault == Init /\ [][NextFault]_vars

\* What the event loop guarantees: a handler that has started runs to its
\* end, every response that is ready to go on gets its turn (the loop runs
\* its ready tasks in turn, so a step that is enabled again and again is
\* taken), and time passes.  Nothing makes a client send another request.
Running ==
  \/ Startup
  \/ DlProbeStep
  \/ DlAdmit
  \/ DlFetchStep
  \/ DlResolve
  \/ DlReturn
  \/ PurgeReturn
  \/ \E r \in Reqs : GetClose(r)

Fairness ==
  /\ WF_vars(Running)
  /\ SF_vars(Tick)
  /\ \A r \in Reqs :
       SF_vars(SendStat(r)) /\ SF_vars(SendOpen(r)) /\ SF_vars(SendBody(r))

SpecFair == Init /\ [][Next]_vars /\ Fairness

\* ------------------------------------------------- names and headers
\* Strings are sequences of characters.  One character stands for each
\* kind the conversions tell apart: a letter and a digit (alphanumeric),
\* the space, the hyphen, the underscore, the period, and "?" for any other
\* character.
Alnum == {"a", "7"}
TitleChars == Alnum \cup {" ", "-", "_", ".", "?"}

Strings(S, n) == UNION {[1..k -> S] : k \in 0..n}

\* variant of Kept: the period is kept as well
KeptWithPeriod(c) == c \in Alnum \/ c \in {" ", "-", "_", "."}
\* c.isalnum() or c in (' ', '-', '_')
Kept(c) == c \in Alnum \/ c \in {" ", "-", "_"}

RECURSIVE lstrip(_)
lstrip(s) == IF s # <<>> /\ Head(s) = " " THEN lstrip(Tail(s)) ELSE s

RECURSIVE rstrip(_)
rstrip(s) ==
  IF s # <<>> /\ s[Len(s)] = " " THEN rstrip(SubSeq(s, 1, Len(s) - 1)) ELSE s

\* str.strip(): of the whitespace characters only the space passes Kept
strip(s) == rstrip(lstrip(s))

\* the literals "download" and ".mp3", each as one symbol
Download == <<"download">>
Mp3 == <<".mp3">>

\* safe_title = "".join(c for c in title if ...).strip(), "download" when
\* that is empty
safe_title(title) ==
  LET joined == strip(SelectSeq(title, Kept)) IN
  IF joined = <<>> THEN Download ELSE joined

\* "safe_filename": f"{safe_title}.mp3"
safe_filename(title) == safe_title(title) \o Mp3

\* download_track builds the safe filename of the title it has probed
Sanitize ==
  /\ text.op = "title"
  /\ text' = [text EXCEPT !.op = "safe_filename",
                          !.output = safe_filename(text.input)]
  /\ UNCHANGED <<started, files, locked, nextId, dl, get, purge, claimed,
                 clean, issued>>

\* The characters of a download_name: a letter that is no hex digit, the
\* percent sign, two digits, the space and a letter outside ASCII.
NameChars == {"z", "%", "2", "5", " ", "e'"}

HexDigits == {"0", "2", "3", "5", "9", "A", "B", "C", "D", "E", "F"}

\* the character of the byte written with the two hex digits
Byte(h1, h2) ==
  CASE <<h1, h2>> = <<"2", "0">> -> " "
    [] <<h1, h2>> = <<"2", "2">> -> "dq"
    [] <<h1, h2>> = <<"2", "5">> -> "%"
    [] <<h1, h2>> = <<"5", "2">> -> "R"
    [] <<h1, h2>> = <<"5", "5">> -> "U"
    [] OTHER -> "U+FFFD"

\* urllib.parse.unquote: every %XX with two hex digits becomes its byte,
\* the bytes are read as UTF-8 (an invalid byte becomes U+FFFD), and a
\* percent sign without two hex digits is left as it is
RECURSIVE unquote(_)
unquote(s) ==
  IF s = <<>> THEN <<>>
  ELSE IF Head(s) = "%" /\ Len(s) >= 3 /\ s[2] \in HexDigits /\ s[3] \in HexDigits
  THEN IF Len(s) >= 6 /\ SubSeq(s, 1, 6) = <<"%", "C", "3", "%", "A", "9">>
       THEN <<"e'">> \o unquote(SubSeq(s, 7, Len(s)))
       ELSE <<Byte(s[2], s[3])>> \o unquote(SubSeq(s, 4, Len(s)))
  ELSE <<Head(s)>> \o unquote(Tail(s))

\* urllib.parse.quote of one character: letters, digits and "_.-~/" stay,
\* every other character becomes the %XX of its UTF-8 bytes
quote_char(c) ==
  CASE c = " " -> <<"%", "2", "0">>
    [] c = "dq" -> <<"%", "2", "2">>
    [] c = "%" -> <<"%", "2", "5">>
    [] c = "e'" -> <<"%", "C", "3", "%", "A", "9">>
    [] c = "U+FFFD" -> <<"%", "E", "F", "%", "B", "F", "%", "B", "D">>
    [] OTHER -> <<c>>

RECURSIVE quote(_)
quote(s) == IF s = <<>> THEN <<>> ELSE quote_char(Head(s)) \o quote(Tail(s))

\* the name of a file in the directory: {uuid4}.mp3
OnDisk == <<"5", "-", "A", ".", "z">>

\* final_filename = unquote(download_name) if download_name else filename
final_filename(filename, given, download_name) ==
  IF given /\ download_name # <<>> THEN unquote(download_name) ELSE filename

\* 'Content-Disposition': attachment; filename="{encoded_filename}";
\* filename*=UTF-8''{encoded_filename}
content_disposition(filename, given, download_name) ==
  LET encoded_filename == quote(final_filename(filename, given, download_name))
  IN [plain |-> encoded_filename, star |-> <<"UTF-8''">> \o encoded_filename]

\* get_file builds the Content-Disposition header of its response
Dispose ==
  /\ text.op = "download_name"
  /\ text' = [text EXCEPT !.op = "header",
                          !.output = content_disposition(OnDisk, text.given,
                                                         text.input)]
  /\ UNCHANGED <<started, files, locked, nextId, dl, get, purge, claimed,
                 clean, issued>>

\* The conversions alone, on every string within the bounds: no request is
\* in flight and the directory is empty.
InitText ==
  /\ started = FALSE
  /\ files = [n \in Names |-> NoFile]
  /\ locked = {}
  /\ nextId = 1
  /\ dl = IdleDl
  /\ get = [r \in Reqs |-> IdleGet]
  /\ purge = IdlePurge
  /\ claimed = {}
  /\ clean = FALSE
  /\ issued = {}
  /\ text \in
       {[op |-> "title", input |-> t, output |-> <<>>] :
          t \in Strings(TitleChars, MaxTitle)}
       \cup {[op |-> "download_name", given |-> TRUE, input |-> d,
               output |-> <<>>] : d \in Strings(NameChars, MaxName)}
       \cup {[op |-> "download_name", given |-> FALSE, input |-> <<>>,
               output |-> <<>>]}

NextText == Sanitize \/ Dispose

SpecText == InitText /\ [][NextText]_vars

TypeOK ==
  /\ started \in BOOLEAN
  /\ files \in [Names -> {NoFile} \cup 0..AgeCap]
  /\ locked \subseteq Names
  /\ nextId \in 1..(MaxIds + 1)
  /\ dl.pc \in {"idle", "swept", "probed", "admitted", "fetched", "done"}
  /\ \A r \in Reqs :
       get[r].pc \in {"idle", "respond", "headers", "streaming", "done"}
  /\ purge.pc \in {"idle", "done"}
  /\ claimed \subseteq Names
  /\ clean \in BOOLEAN
  /\ issued \subseteq Ids

\* ------------------------------------------------------------- claims

\* C1 (single-claim): a GET /file/{name} that arrives after a GET of the
\* same name has been served completely and its deletion task has run is
\* answered 404.
C1_SingleClaim ==
  [][\A r \in Reqs :
       (get[r].pc = "idle" /\ get'[r].pc # "idle" /\ get'[r].name \in claimed)
         => (get'[r].pc = "done" /\ get'[r].status = 404)]_vars

C1_Witness ==
  \E r \in Reqs :
    get[r].pc = "done" /\ get[r].status = 404 /\ get[r].name \in claimed

\* C2 (read-once), as claimed: of the GET requests for one name, at most
\* one is answered 200.
C2_ReadOnce ==
  \A r1, r2 \in Reqs :
    (r1 # r2 /\ get[r1].pc # "idle" /\ get[r2].pc # "idle"
       /\ get[r1].name \in Ids /\ get[r1].name = get[r2].name)
      => ~(get[r1].status = 200 /\ get[r2].status = 200)

\* C3, as claimed: every GET whose handler found the file (it did not
\* answer 404) has sent its body and has then run the deletion exactly
\* once.
C3_DeletedExactlyOnce ==
  \A r \in Reqs :
    (get[r].pc = "done" /\ get[r].name \in Ids /\ get[r].status # 404)
      => /\ get[r].status = 200
         /\ get[r].body \in {"full", "cut"}
         /\ get[r].dels = 1

C5_SizeAdmission ==
  Len(dl.trace) >= 3 =>
    /\ dl.size \in {0, Null} =>
         (dl.pc = "done" /\ dl.status = 400 /\ dl.msg = "size_unknown")
    /\ (dl.size \notin {0, Null} /\ dl.size > MAX_SIZE) =>
         (dl.pc = "done" /\ dl.status = 400 /\ dl.msg = "size_exceeded")
    /\ (dl.size > 0 /\ dl.size <= MAX_SIZE) =>
         (dl.pc = "admitted" \/ Len(dl.trace) >= 4)

\* C6 (status mapping): a POST /download answers 200 only when nothing
\* failed; a probe failure, an unknown size, an exceeded size and a fetch
\* failure are answered 4xx; 5xx is answered exactly when the fetch
\* reported success and no file of the request's id is in the directory.
C6_StatusMapping ==
  dl.pc = "done" =>
    /\ (dl.status = 200) <=> (dl.why = "none")
    /\ dl.status = 200 => (Len(dl.trace) = 5 /\ files[dl.id] # NoFile)
    /\ dl.why \in {"probe", "unknown", "exceeded", "fetch"} =>
         (dl.status >= 400 /\ dl.status <= 499)
    /\ (dl.status >= 500) <=> (dl.why = "missing")
    /\ dl.why = "missing" => (Len(dl.trace) = 5 /\ files[dl.id] = NoFile)

C6_Witness == dl.pc = "done" /\ dl.why = "missing" /\ dl.status = 500

\* a step that runs cleanup_old_files_sync: the startup event, or the
\* first statement of download_track
SweepStep ==
  \/ ~started /\ started'
  \/ dl.pc = "idle" /\ dl'.pc = "swept"

C8_EventualDeletion ==
  \A n \in Ids : (files[n] # NoFile) ~> (files[n] = NoFile)

\* C8, amended: if POST /download requests keep arriving (each starts
\* with a sweep), every artifact in the directory is eventually deleted.
C8_DeletedIfSweepsRecur ==
  \A n \in Ids :
    ([]<>(dl.pc = "swept")) => ((files[n] # NoFile) ~> (files[n] = NoFile))

\* a sweep has removed the last artifact, which nobody had fetched
C8_Witness ==
  /\ dl.pc = "swept"
  /\ dl.deleted > 0
  /\ nextId > 1
  /\ claimed = {}
  /\ Present(files) = {}

\* C9 (purge idempotence), as claimed: no DELETE /cleanup answers an
\* error, and one called after another with no file created in between
\* reports 0 deleted files.
C9_PurgeIdempotent ==
  purge.pc = "done" =>
    /\ purge.status = 200
    /\ purge.again => purge.count = 0

\* C10, as claimed: a GET whose file a sweep removed between the arrival
\* of the request and the streaming of its body is answered 404.
C10_RaceYields404 ==
  \A r \in Reqs :
    (get[r].pc = "done" /\ get[r].swept) => get[r].status = 404

\* a POST /download returns its download_url
ReturnsUrl == dl.pc = "fetched" /\ dl'.pc = "done" /\ dl'.status = 200

\* C11 (uniqueness): the id in the download_url that a POST /download
\* returns differs from every id returned before, and the file of that id
\* is in the directory.
C11_Uniqueness ==
  [][ReturnsUrl => (dl'.id \notin issued /\ files'[dl'.id] # NoFile)]_vars

C11_Witness ==
  /\ Cardinality(issued) >= 2
  /\ \A n \in issued : files[n] # NoFile

\* the file n leaves the directory in this step
Deleted(n) == files[n] # NoFile /\ files'[n] = NoFile

\* the background task of a response that streamed n ends the response
ServeStep(n) ==
  \E r \in Reqs :
    get[r].pc = "streaming" /\ get'[r].pc = "done" /\ get[r].name = n

\* a DELETE /cleanup is handled
PurgeStep == purge.pc = "idle" /\ purge'.pc = "done"

\* The file of an id is written only by the fetch of the request that drew
\* the id, before the id is returned; an id once returned stays returned;
\* the file of a returned id that has been deleted never exists again.
CreatedOnce ==
  \A n \in Ids :
    /\ (files[n] = NoFile /\ files'[n] # NoFile) =>
         (dl.pc = "admitted" /\ dl.id = n /\ n \notin issued)
    /\ n \in issued => n \in issued'
    /\ (n \in issued /\ files[n] = NoFile) => files'[n] = NoFile

\* C12 (artifact state machine), as claimed: an artifact is created once,
\* never comes back after its deletion, and is deleted only by the
\* deletion that follows its serving or by an age-based sweep.
C12_TwoTerminalTransitions ==
  [][/\ CreatedOnce
     /\ \A n \in issued : Deleted(n) => (ServeStep(n) \/ SweepStep)]_vars

\* C12, amended: an artifact is created once, never comes back after its
\* deletion, and is deleted only by the deletion that follows its serving,
\* by an age-based sweep, or by the purge of DELETE /cleanup.
C12_ThreeTerminalTransitions ==
  [][/\ CreatedOnce
     /\ \A n \in issued :
          Deleted(n) => (ServeStep(n) \/ SweepStep \/ PurgeStep)]_vars

\* a purge has deleted an artifact that nobody had fetched
C12_Witness ==
  /\ purge.pc = "done"
  /\ purge.count > 0
  /\ \E n \in issued : files[n] = NoFile /\ n \notin claimed

\* the title with the characters removed that are not alphanumeric, space,
\* hyphen, underscore or period
KeepsPeriod(title) == SelectSeq(title, KeptWithPeriod)

\* C13 (title sanitisation), as claimed: the safe filename is the title
\* without the characters that are not alphanumeric, space, hyphen,
\* underscore or period, or "download" when nothing is left, followed by
\* ".mp3".
C13_SanitizeKeepsPeriod ==
  text.op = "safe_filename" =>
    text.output =
      (IF KeepsPeriod(text.input) = <<>> THEN Download
       ELSE KeepsPeriod(text.input)) \o Mp3

\* C13, amended: the safe filename is the title without the characters
\* that are not alphanumeric, space, hyphen or underscore (a period is
\* removed), then without its leading and trailing spaces, or "download"
\* when nothing is left, followed by ".mp3".
C13_SanitizeDropsPeriod ==
  text.op = "safe_filename" =>
    /\ text.output[Len(text.output)] = ".mp3"
    /\ LET stem == SubSeq(text.output, 1, Len(text.output) - 1)
           kept == {i \in 1..Len(text.input) :
                      text.input[i] \in Alnum \cup {" ", "-", "_"}}
           core == {i \in kept : text.input[i] # " "}
       IN IF core = {}
          THEN stem = Download
          ELSE \E lo \in core, hi \in core :
                 /\ \A i \in core : lo <= i /\ i <= hi
                 /\ Len(stem) = Cardinality({i \in kept : lo <= i /\ i <= hi})
                 /\ \A i \in kept : (lo <= i /\ i <= hi) =>
                      stem[Cardinality({j \in kept : lo <= j /\ j <= i})]
                        = text.input[i]

\* a title with a period inside and a space at its end has been sanitised
C13_Witness ==
  /\ text.op = "safe_filename"
  /\ text.input = <<"a", ".", " ">>
  /\ text.output = <<"a", ".mp3">>

\* the name that a client reads in the two parameters of the header, each
\* percent-decoded
Decoded(header) ==
  [plain |-> unquote(header.plain), star |-> unquote(Tail(header.star))]

\* C14 (disposition round trip), as claimed: the name in the plain and in
\* the UTF-8''-prefixed parameter of the header, percent-decoded, is the
\* download_name of the request, and the name of the file on disk when the
\* request has no download_name.
C14_DispositionRoundTrip ==
  text.op = "header" =>
    /\ Head(text.output.star) = "UTF-8''"
    /\ Decoded(text.output) =
         IF text.given /\ text.input # <<>>
         THEN [plain |-> text.input, star |-> text.input]
         ELSE [plain |-> OnDisk, star |-> OnDisk]

\* C15 (sweep error isolation), as claimed: a sweep in which the unlink of
\* one file raises still deletes every other file that is older than
\* RETENTION seconds.
C15_SweepIsolatesErrors ==
  [][SweepStep =>
       \A n \in Names :
         (files[n] # NoFile /\ files[n] > RETENTION /\ n \notin locked)
           => files'[n] = NoFile]_vars

\* C16 (purge error isolation), as claimed: a DELETE /cleanup in which the
\* unlink of one file raises still deletes every other file and answers
\* 200.
C16_PurgeIsolatesErrors ==
  [][PurgeStep =>
       /\ purge'.status = 200
       /\ \A n \in Names :
            (files[n] # NoFile /\ n \notin locked) => files'[n] = NoFile]_vars

\* the deletion that followed a serving has already removed an artifact
ServedAndDeleted == \E n \in claimed : n \in Ids /\ files[n] = NoFile

\* C17 (deletion races are tolerated): a deletion task that runs after a
\* sweep or a purge has removed the file it is to delete prints no error
\* and leaves the response as it is; a sweep that runs after the deletion
\* task of a file still deletes every stale file, and a purge in that
\* position deletes every file and answers 200.
C17_RacesTolerated ==
  /\ [](\A r \in Reqs :
          (get[r].pc = "done" /\ get[r].raced) =>
            /\ get[r].status = 200
            /\ get[r].dels = 1
            /\ ~get[r].err
            /\ files[get[r].name] = NoFile)
  /\ [][(SweepStep /\ ServedAndDeleted) =>
          \A n \in Names :
            (files[n] # NoFile /\ files[n] > RETENTION) => files'[n] = NoFile]_vars
  /\ [][(PurgeStep /\ ServedAndDeleted) =>
          (purge'.status = 200 /\ Present(files') = {})]_vars

\* the deletion task of a response has run after a sweep or a purge
\* removed the artifact that the response was streaming
C17_Witness ==
  \E r \in Reqs :
    /\ get[r].pc = "done"
    /\ get[r].raced
    /\ get[r].name \in Ids
    /\ get[r].dels = 1

\* the steps of download_track in the order of its source
Steps == <<"sweep", "probe", "admit", "fetch", "resolve">>

\* C18 (two-phase fetch ordering): the steps of a POST /download run in
\* the order sweep, probe, admission check, fetch, resolve; a request that
\* has started its fetch has a probe that returned a size that is known
\* and not above MAX_SIZE, and a request whose probe failed or whose size
\* was rejected has not started a fetch.
C18_TwoPhaseOrder ==
  /\ Len(dl.trace) <= Len(Steps)
  /\ dl.trace = SubSeq(Steps, 1, Len(dl.trace))
  /\ Len(dl.trace) >= 4 =>
       (dl.size \in 1..MAX_SIZE /\ dl.why \notin {"probe", "unknown", "exceeded"})
  /\ dl.why \in {"probe", "unknown", "exceeded"} => Len(dl.trace) <= 3

\* a request with the largest admissible size has fetched and resolved
C18_Witness ==
  /\ dl.pc = "done"
  /\ dl.status = 200
  /\ dl.size = MAX_SIZE
  /\ dl.trace = Steps

\* C19 (no contention during creation): from the start of the fetch of a
\* POST /download until it has resolved its file, the file of its id is
\* changed by no step but its own fetch, and a fetch that has written the
\* file is followed by a resolve that finds it and answers 200.
C19_NoContention ==
  [][/\ dl.pc \in {"admitted", "fetched"} =>
          (files'[dl.id] # files[dl.id] =>
             (dl.pc = "admitted" /\ dl'.pc = "fetched" /\ dl'.id = dl.id))
     /\ (dl.pc = "fetched" /\ files[dl.id] # NoFile) =>
          (dl'.pc = "done" /\ dl'.id = dl.id /\ dl'.status = 200)]_vars

\* a fetch has written its file while a response streams another file
C19_Witness ==
  /\ dl.pc = "fetched"
  /\ files[dl.id] # NoFile
  /\ \E r \in Reqs : get[r].pc = "streaming" /\ get[r].name # dl.id

\* C20 (a rejected request leaves no trace): between its sweep and its
\* admission a POST /download changes no file, and a request that is
\* rejected there (probe failure, size unknown, size exceeded) has drawn
\* no id.
C20_RejectedLeavesNothing ==
  [][dl.pc \in {"swept", "probed"} =>
       /\ files' = files
       /\ dl'.pc = "done" =>
            /\ dl'.why \in {"probe", "unknown", "exceeded"}
            /\ dl'.id = 0
            /\ nextId' = nextId]_vars

\* a request has been rejected for its size next to an artifact that is
\* still in the directory
C20_Witness ==
  /\ dl.pc = "done"
  /\ dl.why = "exceeded"
  /\ dl.id = 0
  /\ \E n \in Ids : files[n] # NoFile
====
